---- MODULE Spec2Model ----
(***************************************************************************)
(* Wikilink navigation of joplin-plugin-wikilinks: the message handler     *)
(* (handleMessage), the tiered note resolver (resolveNoteId) and the two   *)
(* surfaces that post followWikilink messages (editor, preview); the two    *)
(* wikilink scanners (findWikilinks, wikilinkInlineRule); and the editor   *)
(* command convertToWikilink.                                              *)
(*                                                                         *)
(* Strings are sequences of characters; a character is a one-element       *)
(* token such as "a", " ", "\t", "*".  "Idot" stands for U+0130 (capital   *)
(* I with dot above), whose JavaScript lower-casing is the two code units  *)
(* "i" followed by "dot" (U+0307): String.prototype.toLowerCase can change *)
(* the length of a string.                                                 *)
(***************************************************************************)
EXTENDS Integers, Sequences, FiniteSets, TLC

\* ------------------------------------------------------------------------
\* Bounds of the model
\* ------------------------------------------------------------------------

\* Largest number of notes in the note store.
MaxNotes == 3

\* Largest number of result pages the search facility returns for one query.
MaxPages == 2

\* Largest number of items on one result page.
MaxPageItems == 2

\* ------------------------------------------------------------------------
\* Program constants
\* ------------------------------------------------------------------------

\* Length of a note identifier: /^[a-f0-9]{32}$/.
IdLen == 32

\* null / undefined.
NULL == "null"

\* ------------------------------------------------------------------------
\* String primitives (JavaScript semantics)
\* ------------------------------------------------------------------------

Min(S) == CHOOSE x \in S : \A y \in S : x <= y

\* s.indexOf(c): 0-based index of the first occurrence, -1 if none.
IndexOf(s, c) ==
    LET hits == {i \in 1..Len(s) : s[i] = c}
    IN  IF hits = {} THEN -1 ELSE Min(hits) - 1

\* s.slice(from, to) with 0-based, in-range arguments.
Slice(s, from, to) == SubSeq(s, from + 1, to)

\* s.slice(from).
SliceFrom(s, from) == SubSeq(s, from + 1, Len(s))

\* Lower-casing of one character: a sequence, because it may be longer
\* than one code unit.
LowerChar(c) ==
    CASE c = "A" -> <<"a">>
      [] c = "P" -> <<"p">>
      [] c = "L" -> <<"l">>
      [] c = "E" -> <<"e">>
      [] c = "T" -> <<"t">>
      [] c = "I" -> <<"i">>
      [] c = "Idot" -> <<"i", "dot">>
      [] OTHER -> <<c>>

\* s.toLowerCase().
RECURSIVE toLowerCase(_)
toLowerCase(s) ==
    IF s = <<>> THEN <<>> ELSE LowerChar(Head(s)) \o toLowerCase(Tail(s))

\* s.split(' ')[0]: the part before the first space character.
FirstWord(s) ==
    LET i == IndexOf(s, " ")
    IN  IF i < 0 THEN s ELSE Slice(s, 0, i)

\* Characters matched by [a-f0-9].
HexChars == {"a", "b", "c", "d", "e", "f",
             "0", "1", "2", "3", "4", "5", "6", "7", "8", "9"}

\* /^[a-f0-9]{32}$/.test(title)
IsIdShape(title) ==
    /\ Len(title) = IdLen
    /\ \A i \in 1..Len(title) : title[i] \in HexChars

\* s.replace(/["*]/g, '')
sanitiseSearchTitle(s) ==
    SelectSeq(s, LAMBDA c : c \notin {"\"", "*"})

\* uslug(heading): letters are lower-cased and kept, separators become
\* spaces, everything else is dropped; the result is trimmed and its runs of
\* spaces collapse to one "-".
SlugKeep == {"a", "p", "l", "e", "t", "i", "o", "-", "_", "dot"} \cup HexChars

SlugChar(c) ==
    IF c = " " THEN <<" ">>
    ELSE SelectSeq(LowerChar(c), LAMBDA d : d \in SlugKeep)

RECURSIVE SlugMap(_)
SlugMap(s) == IF s = <<>> THEN <<>> ELSE SlugChar(Head(s)) \o SlugMap(Tail(s))

RECURSIVE TrimLeft(_)
TrimLeft(s) == IF s # <<>> /\ Head(s) = " " THEN TrimLeft(Tail(s)) ELSE s

RECURSIVE SlugJoin(_)
SlugJoin(s) ==
    IF s = <<>> THEN <<>>
    ELSE IF Head(s) = " "
         THEN LET rest == TrimLeft(s)
              IN  IF rest = <<>> THEN <<>> ELSE <<"-">> \o SlugJoin(rest)
         ELSE <<Head(s)>> \o SlugJoin(Tail(s))

headingToSlug(heading) == SlugJoin(TrimLeft(SlugMap(heading)))


\* ------------------------------------------------------------------------
\* Titles, notes and targets the model draws its inputs from
\* ------------------------------------------------------------------------

T_apple     == <<"a", "p", "p", "l", "e">>
T_Apple     == <<"A", "p", "p", "l", "e">>
T_APPLE     == <<"A", "P", "P", "L", "E">>
T_ApplePie  == <<"A", "p", "p", "l", "e", " ", "P", "i", "e">>
T_TeaPie    == <<"T", "e", "a", " ", "P", "i", "e">>
T_TeaTab    == <<"T", "e", "a", "\t", "P", "i", "e">>
T_TeaStar   == <<"T", "e", "a", "\"", "*">>
T_teaStar   == <<"t", "e", "a", "\"", "*">>
T_Idot      == <<"Idot">>
T_idot      == <<"i", "dot">>
T_IDot      == <<"I", "dot">>
T_tea       == <<"t", "e", "a">>

\* A title that has the identifier shape, and the identifier it spells.
HexId    == [i \in 1..IdLen |-> "a"]
HexIdStr == "aaaaaaaaaaaaaaaaaaaaaaaaaaaaaaaa"
T_HexPie  == HexId \o <<" ", "P", "i", "e">>
T_HexPies == HexId \o <<" ", "P", "i", "e", "s">>

\* The notes a store is made of.  The sixth is the note whose identifier is
\* spelled by HexId.
NotePool ==
    { [id |-> "1", title |-> T_Apple],
      [id |-> "2", title |-> T_APPLE],
      [id |-> "3", title |-> T_ApplePie],
      [id |-> "4", title |-> T_HexPies],
      [id |-> "5", title |-> T_TeaTab],
      [id |-> HexIdStr, title |-> T_TeaStar],
      [id |-> "7", title |-> T_Idot],
      [id |-> "8", title |-> T_idot],
      [id |-> "9", title |-> T_HexPie] }

\* The title part of a followWikilink target.
Titles == {<<>>, T_apple, T_Apple, T_TeaStar, T_teaStar, T_IDot,
           T_ApplePie, T_TeaPie, T_tea, HexId}

\* The part of a target from its first '#' on.
HashParts == {<<>>, <<"#">>, <<"#", "*">>, <<"#", "T", "o", "p">>}

Targets == {t \o h : t \in Titles, h \in HashParts}

Surfaces == {"editor", "preview"}

\* ------------------------------------------------------------------------
\* The host's search facility (joplin.data.get(['search'], ...))
\* ------------------------------------------------------------------------

\* The words of a string: its maximal runs of letters and digits,
\* lower-cased.
Separators == {" ", "\t", "*", "\"", "#"}

RECURSIVE WordsFrom(_, _)
WordsFrom(s, cur) ==
    IF s = <<>> THEN (IF cur = <<>> THEN {} ELSE {cur})
    ELSE IF Head(s) \in Separators
         THEN (IF cur = <<>> THEN {} ELSE {cur}) \cup WordsFrom(Tail(s), <<>>)
         ELSE WordsFrom(Tail(s), cur \o <<Head(s)>>)

Words(s) == WordsFrom(toLowerCase(s), <<>>)

\* The notes of the store a title: query for `text` can return: those whose
\* title has every word of the query text (none for a text without words).
\* The facility returns any of them, in any order, on any page.
Hits(S, text) ==
    {n \in S : Words(text) # {} /\ Words(text) \subseteq Words(n.title)}

\* Sequences of distinct elements of S of length at most k.
RECURSIVE DistinctSeqs(_, _)
DistinctSeqs(S, k) ==
    IF k = 0 \/ S = {} THEN {<<>>}
    ELSE {<<>>} \cup
         UNION {{<<x>> \o q : q \in DistinctSeqs(S \ {x}, k - 1)} : x \in S}

Range(f) == {f[i] : i \in DOMAIN f}


\* ------------------------------------------------------------------------
\* resolveNoteId: the scan of one result page
\* ------------------------------------------------------------------------

\* A running best candidate { id, len }, or null.
NoCand == [id |-> NULL, len |-> 0]

\* Mutant of Better: the first match is kept whatever its length.
Better_FirstKept(cand, n) ==
    IF cand.id = NULL THEN [id |-> n.id, len |-> Len(n.title)] ELSE cand

\* Mutant of Better: <= for <, the last of equally short matches wins.
Better_LastWins(cand, n) ==
    IF cand.id = NULL \/ Len(n.title) <= cand.len
    THEN [id |-> n.id, len |-> Len(n.title)]
    ELSE cand

\* if (!match || n.title.length < match.len) match = { id, len }
Better(cand, n) ==
    IF cand.id = NULL \/ Len(n.title) < cand.len
    THEN [id |-> n.id, len |-> Len(n.title)]
    ELSE cand

\* nLower === titleLower
IsCaseInsensitiveMatch(n, title) == toLowerCase(n.title) = toLowerCase(title)

\* Mutant of IsFirstWordMatch: a word shared by the two titles is enough.
IsFirstWordMatch_SharedWord(n, title) == Words(n.title) \cap Words(title) # {}

\* nLower.split(' ')[0] === titleLower
IsFirstWordMatch(n, title) == FirstWord(toLowerCase(n.title)) = toLowerCase(title)

\* Mutant of IsExactMatch: the comparison ignores case.
IsExactMatch_IgnoreCase(n, title) == toLowerCase(n.title) = toLowerCase(title)

\* n.title === title
IsExactMatch(n, title) == n.title = title

\* One iteration of the loop over the items of a page of the quoted query.
ScanItem(n, title, acc) ==
    IF IsExactMatch(n, title)
    THEN [acc EXCEPT !.exactId = n.id]
    ELSE [exactId |-> NULL,
          ci |-> IF IsCaseInsensitiveMatch(n, title) THEN Better(acc.ci, n)
                 ELSE acc.ci,
          fw |-> IF IsFirstWordMatch(n, title) THEN Better(acc.fw, n)
                 ELSE acc.fw]

\* for (const n of items) { ... } of the quoted pass; the loop breaks at an
\* exact match.
RECURSIVE ScanQuoted(_, _, _)
ScanQuoted(items, title, acc) ==
    IF items = <<>> \/ acc.exactId # NULL THEN acc
    ELSE ScanQuoted(Tail(items), title, ScanItem(Head(items), title, acc))

\* for (const n of items) { ... } of the unquoted pass.
RECURSIVE ScanUnquoted(_, _, _)
ScanUnquoted(items, title, fwCand) ==
    IF items = <<>> THEN fwCand
    ELSE ScanUnquoted(Tail(items), title,
                      IF IsFirstWordMatch(Head(items), title)
                      THEN Better(fwCand, Head(items))
                      ELSE fwCand)

\* The search requests of the two passes.
QuotedQuery(title)   == [quoted |-> TRUE,  text |-> sanitiseSearchTitle(title)]
UnquotedQuery(title) == [quoted |-> FALSE, text |-> sanitiseSearchTitle(title)]


\* ------------------------------------------------------------------------
\* State
\* ------------------------------------------------------------------------

VARIABLES
    store,    \* the host's note store: a set of notes [id, title]
    msg,      \* per run: the followWikilink message [target, surface]
    pc,       \* per run: where the run is suspended
    title,    \* per run: the title part of the target
    slug,     \* per run: the heading slug (<<>> when null or empty)
    page,     \* per run: resolveNoteId's page counter
    ciMatch,  \* per run: caseInsensitiveMatch
    fwMatch,  \* per run: firstWordMatch
    noteId,   \* per run: the value resolveNoteId returned
    reqs,     \* per run: the requests sent to joplin.data.get, in order
    pages,    \* per run: the answers received to the search requests
    lookup,   \* per run: the answer received to the direct lookup
    resp,     \* per run: the value handleMessage's promise resolved to
    notice,   \* per run: the alert the posting surface has shown
    cmds,     \* the commands given to joplin.commands.execute, in order
    doc,      \* the text of the editor's document (view.state.doc)
    links,    \* what findWikilinks returned for the document
    tokens,   \* what the preview's inline rule emitted for the document
    conv,     \* the convertToWikilink command: its link, snapshot and outcome
    follow    \* the follow action of the editor: its position and message

\* The state of the message handler and of the runs it serves.
navVars == <<store, msg, pc, title, slug, page, ciMatch, fwMatch, noteId,
             reqs, pages, lookup, resp, notice, cmds>>

\* The state of the editor and of the preview.
editVars == <<doc, links, tokens, conv, follow>>

vars == <<navVars, editVars>>

\* findWikilinks has not run / the preview has not rendered.
NotScanned == [done |-> FALSE, out |-> <<>>]

\* No convertToWikilink command is in progress.  The fields of conv: pc,
\* where the command is; link, the JoplinLink it converts; original, the
\* text of the link's span taken before the lookup; title, the resolved
\* title; applied, whether view.dispatch was called; and, for the record,
\* snapshot, the whole document when original was taken, before, the
\* document the command found when it resumed, and edits, 1 when the
\* document was changed in between.
NoLink == [from |-> 0, to |-> 0, text |-> <<>>, noteId |-> <<>>, slug |-> <<>>]

ConvIdle == [pc |-> "idle", link |-> NoLink, original |-> <<>>,
             snapshot |-> <<>>, before |-> <<>>, title |-> <<>>,
             edits |-> 0, applied |-> FALSE]

\* No follow action was made in the editor.  The fields of follow: pos, the
\* position followWikilinkAtPos was given; sent, the messages it posted,
\* each with, for the record, the WikilinkRange it was posted for.
NoFollow == [done |-> FALSE, pos |-> 0, sent |-> <<>>]

\* An empty editor and an empty preview, no command in progress.
EditorIdle ==
    /\ doc = <<>>
    /\ links = NotScanned
    /\ tokens = NotScanned
    /\ conv = ConvIdle
    /\ follow = NoFollow

Runs == DOMAIN pc

\* handleMessage returned undefined.
Undefined == [error |-> "none", title |-> <<>>]

\* return { error: 'not_found', title }
NotFoundResp(t) == [error |-> "not_found", title |-> t]

NoNotice == [shown |-> FALSE, title |-> <<>>]

\* alert('Note not found: "' + result.title + '"')
Alert(t) == [shown |-> TRUE, title |-> t]

LookupReq(t)    == [kind |-> "lookup", query |-> [quoted |-> FALSE, text |-> t],
                    page |-> 0]
QuotedReq(t, p)   == [kind |-> "quoted", query |-> QuotedQuery(t), page |-> p]
UnquotedReq(t, p) == [kind |-> "unquoted", query |-> UnquotedQuery(t), page |-> p]

\* The notes the pages of one pass have returned so far, in order.
RECURSIVE SeenIn(_, _)
SeenIn(log, kind) ==
    IF log = <<>> THEN <<>>
    ELSE (IF Head(log).kind = kind THEN Head(log).items ELSE <<>>)
         \o SeenIn(Tail(log), kind)

\* The answers the search facility can give to the request for page p of a
\* pass: a failure, or a page of notes it has not returned yet with a
\* continuation flag.  The facility returns at most MaxPages pages.
SearchAnswers(S, log, kind, text, p) ==
    {[kind |-> kind, page |-> p, failed |-> TRUE, items |-> <<>>,
      has_more |-> FALSE]}
    \cup
    {[kind |-> kind, page |-> p, failed |-> FALSE, items |-> its,
      has_more |-> more] :
        its \in DistinctSeqs(Hits(S, text) \ Range(SeenIn(log, kind)),
                             MaxPageItems),
        more \in {b \in BOOLEAN : b => p < MaxPages}}

\* Does the identifier `id` spell the title `t`?
Spells(id, t) == id = HexIdStr /\ t = HexId

\* The answers of joplin.data.get(['notes', title]): the note with that
\* identifier when the store has it, no note, or a failure.
LookupAnswers(S, t) ==
    {[status |-> "found", id |-> n.id] : n \in {m \in S : Spells(m.id, t)}}
    \cup {[status |-> "none", id |-> NULL], [status |-> "throw", id |-> NULL]}


\* ------------------------------------------------------------------------
\* handleMessage, up to its first suspension
\* ------------------------------------------------------------------------

\* const title = hashIdx >= 0 ? raw.slice(0, hashIdx) : raw
TitleOf(raw) ==
    LET hashIdx == IndexOf(raw, "#")
    IN  IF hashIdx >= 0 THEN Slice(raw, 0, hashIdx) ELSE raw

\* const heading = hashIdx >= 0 ? raw.slice(hashIdx + 1) : null;
\* const slug = heading ? headingToSlug(heading) : null
\* (<<>> stands for null and for the empty string: both are falsy).
SlugOf(raw) ==
    LET hashIdx == IndexOf(raw, "#")
        heading == IF hashIdx >= 0 THEN SliceFrom(raw, hashIdx + 1) ELSE <<>>
    IN  IF heading # <<>> THEN headingToSlug(heading) ELSE <<>>

\* Initial states: one followWikilink message per run, not yet handled.
\* The notes that can reach a run resolving title t: those a search for t
\* can return and the one t names by identifier.  The other notes of a
\* store never appear in an answer, and the store is modelled without them.
Relevant(t) ==
    {n \in NotePool : \/ n \in Hits(NotePool, sanitiseSearchTitle(t))
                      \/ Spells(n.id, t)}

InitRuns(R) ==
    /\ msg \in [R -> [target : Targets, surface : Surfaces]]
    /\ store \in {S \in SUBSET UNION {Relevant(TitleOf(msg[r].target)) : r \in R} :
                    Cardinality(S) <= MaxNotes}
    /\ pc = [r \in R |-> "posted"]
    /\ title = [r \in R |-> <<>>]
    /\ slug = [r \in R |-> <<>>]
    /\ page = [r \in R |-> 1]
    /\ ciMatch = [r \in R |-> NoCand]
    /\ fwMatch = [r \in R |-> NoCand]
    /\ noteId = [r \in R |-> NULL]
    /\ reqs = [r \in R |-> <<>>]
    /\ pages = [r \in R |-> <<>>]
    /\ lookup = [r \in R |-> "unasked"]
    /\ resp = [r \in R |-> Undefined]
    /\ notice = [r \in R |-> NoNotice]
    /\ cmds = <<>>

Init == InitRuns({1}) /\ EditorIdle

\* if (!title && slug): the same-note heading jump.
IsSameNoteJump(t, sl) == t = <<>> /\ sl # <<>>

\* The entry of resolveNoteId's title search: page = 1, no candidates, and
\* the request for page 1 of the quoted query.
EnterQuoted(r, t) ==
    /\ page' = [page EXCEPT ![r] = 1]
    /\ ciMatch' = [ciMatch EXCEPT ![r] = NoCand]
    /\ fwMatch' = [fwMatch EXCEPT ![r] = NoCand]
    /\ reqs' = [reqs EXCEPT ![r] = Append(@, QuotedReq(t, 1))]
    /\ pc' = [pc EXCEPT ![r] = "search1"]

\* Mutant of Return: an openNote for a note that an earlier command already
\* opened is left out.
Return_Dedup(r, id) ==
    /\ noteId' = [noteId EXCEPT ![r] = id]
    /\ IF id = NULL
       THEN /\ resp' = [resp EXCEPT ![r] = NotFoundResp(title[r])]
            /\ pc' = [pc EXCEPT ![r] = "returned"]
            /\ UNCHANGED cmds
       ELSE /\ cmds' = IF \E i \in DOMAIN cmds : cmds[i].id = id
                       THEN cmds
                       ELSE Append(cmds, [name |-> "openNote", id |-> id,
                                          anchor |-> slug[r], run |-> r])
            /\ pc' = [pc EXCEPT ![r] = "command"]
            /\ UNCHANGED resp

\* Mutant of Return: a resolution without a note never settles.
Return_NeverSettles(r, id) ==
    /\ noteId' = [noteId EXCEPT ![r] = id]
    /\ IF id = NULL
       THEN /\ pc' = [pc EXCEPT ![r] = "pending"]
            /\ UNCHANGED <<resp, cmds>>
       ELSE /\ cmds' = Append(cmds, [name |-> "openNote", id |-> id,
                                     anchor |-> slug[r], run |-> r])
            /\ pc' = [pc EXCEPT ![r] = "command"]
            /\ UNCHANGED resp

\* Mutant of Return: openNote is issued without the anchor.
Return_NoAnchor(r, id) ==
    /\ noteId' = [noteId EXCEPT ![r] = id]
    /\ IF id = NULL
       THEN /\ resp' = [resp EXCEPT ![r] = NotFoundResp(title[r])]
            /\ pc' = [pc EXCEPT ![r] = "returned"]
            /\ UNCHANGED cmds
       ELSE /\ cmds' = Append(cmds, [name |-> "openNote", id |-> id,
                                     anchor |-> <<>>, run |-> r])
            /\ pc' = [pc EXCEPT ![r] = "command"]
            /\ UNCHANGED resp

\* resolveNoteId returns `id` and handleMessage resumes in the same turn of
\* the event loop:
\*   if (!noteId) return { error: 'not_found', title };
\*   await joplin.commands.execute('openNote', noteId[, slug])
Return(r, id) ==
    /\ noteId' = [noteId EXCEPT ![r] = id]
    /\ IF id = NULL
       THEN /\ resp' = [resp EXCEPT ![r] = NotFoundResp(title[r])]
            /\ pc' = [pc EXCEPT ![r] = "returned"]
            /\ UNCHANGED cmds
       ELSE /\ cmds' = Append(cmds, [name |-> "openNote", id |-> id,
                                     anchor |-> slug[r], run |-> r])
            /\ pc' = [pc EXCEPT ![r] = "command"]
            /\ UNCHANGED resp

\* resolveNoteId stays suspended.
Suspended == UNCHANGED <<noteId, resp, cmds>>

\* if (message?.name !== 'followWikilink' || !message.target) return
IgnoreMessage(r) ==
    /\ pc[r] = "posted"
    /\ msg[r].target = <<>>
    /\ pc' = [pc EXCEPT ![r] = "returned"]
    /\ UNCHANGED <<store, msg, title, slug, page, ciMatch, fwMatch, noteId,
                   reqs, pages, lookup, resp, notice, cmds>>

\* await joplin.commands.execute('scrollToHash', slug)
SameNoteJump(r) ==
    /\ pc[r] = "posted"
    /\ msg[r].target # <<>>
    /\ LET t == TitleOf(msg[r].target)
           sl == SlugOf(msg[r].target)
       IN  /\ IsSameNoteJump(t, sl)
           /\ title' = [title EXCEPT ![r] = t]
           /\ slug' = [slug EXCEPT ![r] = sl]
           /\ cmds' = Append(cmds, [name |-> "scrollToHash", id |-> NULL,
                                    anchor |-> sl, run |-> r])
           /\ pc' = [pc EXCEPT ![r] = "command"]
    /\ UNCHANGED <<store, msg, page, ciMatch, fwMatch, noteId, reqs, pages,
                   lookup, resp, notice>>

\* const noteId = await resolveNoteId(title), for a title that has the
\* identifier shape: the direct lookup is requested.
StartLookup(r) ==
    /\ pc[r] = "posted"
    /\ msg[r].target # <<>>
    /\ LET t == TitleOf(msg[r].target)
           sl == SlugOf(msg[r].target)
       IN  /\ ~IsSameNoteJump(t, sl)
           /\ IsIdShape(t)
           /\ title' = [title EXCEPT ![r] = t]
           /\ slug' = [slug EXCEPT ![r] = sl]
           /\ reqs' = [reqs EXCEPT ![r] = Append(@, LookupReq(t))]
           /\ pc' = [pc EXCEPT ![r] = "lookup"]
    /\ UNCHANGED <<store, msg, page, ciMatch, fwMatch, noteId, pages, lookup,
                   resp, notice, cmds>>

\* const noteId = await resolveNoteId(title), for any other title: the
\* title search starts at once.
StartSearch(r) ==
    /\ pc[r] = "posted"
    /\ msg[r].target # <<>>
    /\ LET t == TitleOf(msg[r].target)
           sl == SlugOf(msg[r].target)
       IN  /\ ~IsSameNoteJump(t, sl)
           /\ ~IsIdShape(t)
           /\ title' = [title EXCEPT ![r] = t]
           /\ slug' = [slug EXCEPT ![r] = sl]
           /\ EnterQuoted(r, t)
    /\ UNCHANGED <<store, msg, noteId, pages, lookup, resp, notice, cmds>>


\* ------------------------------------------------------------------------
\* resolveNoteId
\* ------------------------------------------------------------------------

\* Mutant of QuotedNext: the candidates are returned after the page that
\* produced them, without a look at hasMore.
QuotedNext_NoPaging(acc, hasMore) ==
    IF acc.exactId # NULL THEN "exact"
    ELSE IF acc.ci.id # NULL THEN "ci"
    ELSE IF acc.fw.id # NULL THEN "fw"
    ELSE IF hasMore THEN "more"
    ELSE "pass2"

\* Mutant of QuotedNext: the exact match is looked at after the loop, behind
\* the case-insensitive candidate.
QuotedNext_ExactLast(acc, hasMore) ==
    IF hasMore THEN "more"
    ELSE IF acc.ci.id # NULL THEN "ci"
    ELSE IF acc.exactId # NULL THEN "exact"
    ELSE IF acc.fw.id = NULL THEN "pass2"
    ELSE "fw"

\* Mutant of QuotedNext: the loop condition is tested before the exact
\* match.
QuotedNext_MoreFirst(acc, hasMore) ==
    IF hasMore THEN "more"
    ELSE IF acc.exactId # NULL THEN "exact"
    ELSE IF acc.ci.id # NULL THEN "ci"
    ELSE IF acc.fw.id = NULL THEN "pass2"
    ELSE "fw"

\* What follows the scan of a page of the quoted pass:
\*   if (exactId) return exactId;            -> "exact"
\*   while (hasMore)                          -> "more"
\*   if (caseInsensitiveMatch) return ...     -> "ci"
\*   if (!firstWordMatch) { second loop }     -> "pass2"
\*   if (firstWordMatch) return ...           -> "fw"
QuotedNext(acc, hasMore) ==
    IF acc.exactId # NULL THEN "exact"
    ELSE IF hasMore THEN "more"
    ELSE IF acc.ci.id # NULL THEN "ci"
    ELSE IF acc.fw.id = NULL THEN "pass2"
    ELSE "fw"

\* What follows the scan of a page of the unquoted pass.
UnquotedNext(fwCand, hasMore) ==
    IF hasMore THEN "more"
    ELSE IF fwCand.id # NULL THEN "fw"
    ELSE "null"

\* Mutant of Comparand: the sanitised title is compared.
Comparand_Sanitised(t) == sanitiseSearchTitle(t)

\* The value tested against the note titles: the title as given.
Comparand(t) == t

\* Mutant of LookupNext: no try/catch around the lookup, its failure ends
\* the resolution.
LookupNext_Propagate(ans) ==
    IF ans.status = "found" THEN "return"
    ELSE IF ans.status = "throw" THEN "fail"
    ELSE "search"

\* What follows the answer to the direct lookup:
\*   try { ...; if (note?.id) return note.id; } catch { /* fall through */ }
LookupNext(ans) ==
    IF ans.status = "found" THEN "return" ELSE "search"

\* Mutant of CatchResult: the best candidate so far survives the failure.
CatchResult_BestSoFar(ci, fw) == IF ci.id # NULL THEN ci.id ELSE fw.id

\* The value resolveNoteId returns when a search request fails:
\*   catch (err) { console.warn(...) }  return null
CatchResult(ci, fw) == NULL

\* The answer to the direct lookup arrives.
LookupReturn(r) ==
    /\ pc[r] = "lookup"
    /\ \E ans \in LookupAnswers(store, title[r]) :
          /\ lookup' = [lookup EXCEPT ![r] = ans.status]
          /\ CASE LookupNext(ans) = "return" ->
                    /\ Return(r, ans.id)
                    /\ UNCHANGED <<page, ciMatch, fwMatch, reqs>>
               [] LookupNext(ans) = "search" ->
                    /\ EnterQuoted(r, title[r])
                    /\ Suspended
               [] OTHER ->
                    /\ Return(r, NULL)
                    /\ UNCHANGED <<page, ciMatch, fwMatch, reqs>>
    /\ UNCHANGED <<store, msg, title, slug, pages, notice>>

\* The answer to a request of the quoted pass arrives: a failure is caught
\* at the end of resolveNoteId, a page is scanned.
QuotedReturn(r) ==
    /\ pc[r] = "search1"
    /\ \E ans \in SearchAnswers(store, pages[r], "quoted",
                                QuotedQuery(title[r]).text, page[r]) :
          /\ pages' = [pages EXCEPT ![r] = Append(@, ans)]
          /\ IF ans.failed
             THEN /\ Return(r, CatchResult(ciMatch[r], fwMatch[r]))
                  /\ UNCHANGED <<page, ciMatch, fwMatch, reqs>>
             ELSE LET acc == ScanQuoted(ans.items, Comparand(title[r]),
                                        [exactId |-> NULL, ci |-> ciMatch[r],
                                         fw |-> fwMatch[r]])
                      next == QuotedNext(acc, ans.has_more)
                  IN  /\ ciMatch' = [ciMatch EXCEPT ![r] = acc.ci]
                      /\ fwMatch' = [fwMatch EXCEPT ![r] = acc.fw]
                      /\ CASE next = "exact" ->
                                /\ Return(r, acc.exactId)
                                /\ page' = [page EXCEPT ![r] = @ + 1]
                                /\ UNCHANGED reqs
                           [] next = "more" ->
                                /\ page' = [page EXCEPT ![r] = @ + 1]
                                /\ reqs' = [reqs EXCEPT ![r] =
                                     Append(@, QuotedReq(title[r], page[r] + 1))]
                                /\ UNCHANGED pc
                                /\ Suspended
                           [] next = "ci" ->
                                /\ Return(r, acc.ci.id)
                                /\ page' = [page EXCEPT ![r] = @ + 1]
                                /\ UNCHANGED reqs
                           [] next = "fw" ->
                                /\ Return(r, acc.fw.id)
                                /\ page' = [page EXCEPT ![r] = @ + 1]
                                /\ UNCHANGED reqs
                           [] next = "pass2" ->
                                /\ page' = [page EXCEPT ![r] = 1]
                                /\ reqs' = [reqs EXCEPT ![r] =
                                     Append(@, UnquotedReq(title[r], 1))]
                                /\ pc' = [pc EXCEPT ![r] = "search2"]
                                /\ Suspended
    /\ UNCHANGED <<store, msg, title, slug, lookup, notice>>

\* The answer to a request of the unquoted pass arrives.
UnquotedReturn(r) ==
    /\ pc[r] = "search2"
    /\ \E ans \in SearchAnswers(store, pages[r], "unquoted",
                                UnquotedQuery(title[r]).text, page[r]) :
          /\ pages' = [pages EXCEPT ![r] = Append(@, ans)]
          /\ IF ans.failed
             THEN /\ Return(r, CatchResult(ciMatch[r], fwMatch[r]))
                  /\ UNCHANGED <<page, fwMatch, reqs>>
             ELSE LET cand == ScanUnquoted(ans.items, Comparand(title[r]),
                                           fwMatch[r])
                      next == UnquotedNext(cand, ans.has_more)
                  IN  /\ fwMatch' = [fwMatch EXCEPT ![r] = cand]
                      /\ page' = [page EXCEPT ![r] = @ + 1]
                      /\ CASE next = "more" ->
                                /\ reqs' = [reqs EXCEPT ![r] =
                                     Append(@, UnquotedReq(title[r], page[r] + 1))]
                                /\ UNCHANGED pc
                                /\ Suspended
                           [] next = "fw" ->
                                /\ Return(r, cand.id)
                                /\ UNCHANGED reqs
                           [] next = "null" ->
                                /\ Return(r, NULL)
                                /\ UNCHANGED reqs
    /\ UNCHANGED <<store, msg, title, slug, ciMatch, lookup, notice>>

\* ------------------------------------------------------------------------
\* handleMessage, after its command
\* ------------------------------------------------------------------------

\* The host command completes and handleMessage returns undefined.
CommandReturn(r) ==
    /\ pc[r] = "command"
    /\ pc' = [pc EXCEPT ![r] = "returned"]
    /\ UNCHANGED <<store, msg, title, slug, page, ciMatch, fwMatch, noteId,
                   reqs, pages, lookup, resp, notice, cmds>>

\* ------------------------------------------------------------------------
\* The posting surfaces receive the response
\* ------------------------------------------------------------------------

\* Mutant of PreviewNotice: the response is dropped, as in the editor.
PreviewNotice_Silent(result) == NoNotice

\* The notice the preview's .then() callback shows for a response.
\*   if (result && result.error === 'not_found') alert(...)
PreviewNotice(result) ==
    IF result.error = "not_found" THEN Alert(result.title) ELSE NoNotice

\* Preview: webviewApi.postMessage(...).then(function (result) { ... })
PreviewResponse(r) ==
    /\ pc[r] = "returned"
    /\ msg[r].surface = "preview"
    /\ notice' = [notice EXCEPT ![r] = PreviewNotice(resp[r])]
    /\ pc' = [pc EXCEPT ![r] = "done"]
    /\ UNCHANGED <<store, msg, title, slug, page, ciMatch, fwMatch, noteId,
                   reqs, pages, lookup, resp, cmds>>

\* Editor: context.postMessage(...) with no continuation; the response is
\* dropped.
EditorResponse(r) ==
    /\ pc[r] = "returned"
    /\ msg[r].surface = "editor"
    /\ pc' = [pc EXCEPT ![r] = "done"]
    /\ UNCHANGED <<store, msg, title, slug, page, ciMatch, fwMatch, noteId,
                   reqs, pages, lookup, resp, notice, cmds>>

Next ==
    \/ \E r \in Runs : IgnoreMessage(r) /\ UNCHANGED editVars
    \/ \E r \in Runs : SameNoteJump(r) /\ UNCHANGED editVars
    \/ \E r \in Runs : StartLookup(r) /\ UNCHANGED editVars
    \/ \E r \in Runs : StartSearch(r) /\ UNCHANGED editVars
    \/ \E r \in Runs : LookupReturn(r) /\ UNCHANGED editVars
    \/ \E r \in Runs : QuotedReturn(r) /\ UNCHANGED editVars
    \/ \E r \in Runs : UnquotedReturn(r) /\ UNCHANGED editVars
    \/ \E r \in Runs : CommandReturn(r) /\ UNCHANGED editVars
    \/ \E r \in Runs : PreviewResponse(r) /\ UNCHANGED editVars
    \/ \E r \in Runs : EditorResponse(r) /\ UNCHANGED editVars

Spec == Init /\ [][Next]_vars


\* ------------------------------------------------------------------------
\* What a run has observed, and the tiers as the specification states them
\* ------------------------------------------------------------------------

\* resolveNoteId was called by run r and has returned.
Completed(r) == reqs[r] # <<>> /\ pc[r] \in {"command", "returned", "done"}

\* Some search request of run r failed.
SearchFailed(r) == \E i \in DOMAIN pages[r] : pages[r][i].failed

\* The notes the pages of the quoted and of the unquoted query returned to
\* run r, in page order and within-page order.
QuotedSeen(r)   == SeenIn(pages[r], "quoted")
UnquotedSeen(r) == SeenIn(pages[r], "unquoted")

\* The pages one pass of run r received.
PassPages(r, kind) == SelectSeq(pages[r], LAMBDA a : a.kind = kind)

\* The first token of s delimited by the characters of seps.
FirstToken(s, seps) ==
    LET starts == {i \in 1..Len(s) : s[i] \notin seps}
        from   == IF starts = {} THEN Len(s) + 1 ELSE Min(starts)
        stops  == {i \in from..Len(s) : s[i] \in seps}
        to     == IF stops = {} THEN Len(s) ELSE Min(stops) - 1
    IN  SubSeq(s, from, to)

Whitespace == {" ", "\t"}

\* The notes of seq that match title t at each tier.
ExactIn(seq, t) == SelectSeq(seq, LAMBDA n : n.title = t)

CaseVariantsIn(seq, t) ==
    SelectSeq(seq, LAMBDA n : toLowerCase(n.title) = toLowerCase(t))

FirstTokenIn(seq, t, seps) ==
    SelectSeq(seq, LAMBDA n :
        FirstToken(toLowerCase(n.title), seps) = toLowerCase(t))

\* The id of the note of seq with the shortest title, the first one seen
\* among equally short ones; NULL for an empty seq.
ShortestFirstId(seq) ==
    IF seq = <<>> THEN NULL
    ELSE LET i == CHOOSE i \in 1..Len(seq) : \A j \in 1..Len(seq) :
                      \/ Len(seq[i].title) < Len(seq[j].title)
                      \/ Len(seq[i].title) = Len(seq[j].title) /\ i <= j
         IN  seq[i].id

FirstId(seq) == IF seq = <<>> THEN NULL ELSE seq[1].id

\* The candidate of each tier for run r (NULL when the tier has no match).
Tier1Id(r) == IF lookup[r] = "found" THEN HexIdStr ELSE NULL
Tier2Id(r) == FirstId(ExactIn(QuotedSeen(r), title[r]))
Tier3Id(r) == ShortestFirstId(CaseVariantsIn(QuotedSeen(r), title[r]))
Tier4Id(r, seps) ==
    LET q == FirstTokenIn(QuotedSeen(r), title[r], seps)
    IN  IF q # <<>> THEN ShortestFirstId(q)
        ELSE ShortestFirstId(FirstTokenIn(UnquotedSeen(r), title[r], seps))

\* The result of tiers 2 to 4 alone, and of all four tiers, with the first
\* word delimited by the characters of seps.
Tiers234Id(r, seps) ==
    IF Tier2Id(r) # NULL THEN Tier2Id(r)
    ELSE IF Tier3Id(r) # NULL THEN Tier3Id(r)
    ELSE Tier4Id(r, seps)

LowestTierId(r, seps) ==
    IF Tier1Id(r) # NULL THEN Tier1Id(r) ELSE Tiers234Id(r, seps)

\* ------------------------------------------------------------------------
\* Claims
\* ------------------------------------------------------------------------

\* C1: when no search request fails, resolveNoteId returns the candidate of
\* the lowest-numbered tier that has a match among the notes it was given
\* (1 direct id, 2 exact title, 3 case-insensitive title, 4 first word),
\* whatever the order of the notes within pages and whatever page each is
\* on; NotFound when no tier has a match.
C1_LowestTierWins ==
    \A r \in Runs :
        Completed(r) /\ ~SearchFailed(r)
            => noteId[r] = LowestTierId(r, {" "})

\* C1 witness: an exact match on the second page wins over a
\* case-insensitive and a first-word candidate of the first page.
C1_Witness ==
    \E r \in Runs :
        /\ Completed(r) /\ ~SearchFailed(r)
        /\ Len(PassPages(r, "quoted")) = 2
        /\ ExactIn(PassPages(r, "quoted")[1].items, title[r]) = <<>>
        /\ CaseVariantsIn(PassPages(r, "quoted")[1].items, title[r]) # <<>>
        /\ Len(FirstTokenIn(PassPages(r, "quoted")[1].items, title[r], {" "})) = 2
        /\ Tier2Id(r) # NULL
        /\ noteId[r] = Tier2Id(r)

C3_ShortestCaseVariant ==
    \A r \in Runs :
        /\ Completed(r) /\ ~SearchFailed(r)
        /\ lookup[r] # "found" /\ Tier2Id(r) = NULL /\ Tier3Id(r) # NULL
        => noteId[r] = Tier3Id(r)

\* C3 witness: the shorter of two case variants is on the second page, the
\* longer one on the first.
C3_Witness ==
    \E r \in Runs :
        /\ Completed(r) /\ ~SearchFailed(r) /\ Tier2Id(r) = NULL
        /\ Len(PassPages(r, "quoted")) = 2
        /\ Len(CaseVariantsIn(QuotedSeen(r), title[r])) = 2
        /\ Len(PassPages(r, "quoted")[1].items) = 1
        /\ Len(QuotedSeen(r)[1].title) > Len(QuotedSeen(r)[2].title)
        /\ noteId[r] = QuotedSeen(r)[2].id


\* The store of the specification's example: {1, "Apple"}, {2, "APPLE"},
\* {3, "Apple Pie"}.
AppleStore ==
    { [id |-> "1", title |-> T_Apple],
      [id |-> "2", title |-> T_APPLE],
      [id |-> "3", title |-> T_ApplePie] }

\* Run r resolved "apple" against AppleStore and the search returned all
\* three notes.
AppleCase(r) ==
    /\ Completed(r) /\ ~SearchFailed(r)
    /\ store = AppleStore
    /\ title[r] = T_apple
    /\ Range(QuotedSeen(r)) = AppleStore

\* The position of the note with identifier id in seq.
PosOf(seq, id) == Min({i \in 1..Len(seq) : seq[i].id = id})

\* C4 as stated: with the store {1 "Apple", 2 "APPLE", 3 "Apple Pie"},
\* resolving "apple" returns id 2 for every order in which the search
\* returns the notes.
C4_AlwaysId2 ==
    \A r \in Runs : AppleCase(r) => noteId[r] = "2"

\* C4 amended: "Apple" and "APPLE" are equally long, so resolving "apple"
\* returns whichever of the notes 1 and 2 the search returned first, and
\* never note 3.
C4_FirstOfId1Id2 ==
    \A r \in Runs :
        AppleCase(r) =>
            /\ noteId[r] \in {"1", "2"}
            /\ noteId[r] = "1" <=>
                  PosOf(QuotedSeen(r), "1") < PosOf(QuotedSeen(r), "2")

\* C4 witness: note 3 is returned first, then note 1 before note 2, and the
\* result is note 1.
C4_Witness ==
    \E r \in Runs :
        /\ AppleCase(r)
        /\ QuotedSeen(r)[1].id = "3"
        /\ QuotedSeen(r)[2].id = "1"
        /\ noteId[r] = "1"

\* C5: when tiers 1 to 3 yield nothing, resolveNoteId returns, among the
\* notes returned for tier 4 whose title's first whitespace-delimited token,
\* lower-cased, equals the lower-cased title, the one with the shortest
\* title, and NotFound only if there is no such note.
C5_FirstWhitespaceToken ==
    \A r \in Runs :
        /\ Completed(r) /\ ~SearchFailed(r)
        /\ lookup[r] # "found" /\ Tier2Id(r) = NULL /\ Tier3Id(r) = NULL
        => noteId[r] = Tier4Id(r, Whitespace)


\* C6: for a title that has the identifier shape and whose direct lookup
\* fails or returns no note, resolveNoteId does not fail: its next request
\* is page 1 of the quoted title search, and it returns what tiers 2 to 4
\* return for that title.
C6_LookupFallsThrough ==
    \A r \in Runs :
        IsIdShape(title[r]) /\ lookup[r] \in {"none", "throw"} =>
            /\ Len(reqs[r]) >= 2
            /\ reqs[r][1] = LookupReq(title[r])
            /\ reqs[r][2] = QuotedReq(title[r], 1)
            /\ Completed(r) =>
                  noteId[r] = IF SearchFailed(r) THEN NULL
                              ELSE Tiers234Id(r, {" "})

\* C6 witness: the lookup threw and the title search found a note.
C6_Witness ==
    \E r \in Runs :
        /\ Completed(r) /\ IsIdShape(title[r])
        /\ lookup[r] = "throw"
        /\ noteId[r] # NULL
        /\ noteId[r] = Tier4Id(r, {" "})

\* The last page a pass of run r received.
LastPage(r, kind) == PassPages(r, kind)[Len(PassPages(r, kind))]

\* The pass of run r is over.
PassOver(r, kind) ==
    /\ PassPages(r, kind) # <<>>
    /\ pc[r] # (IF kind = "quoted" THEN "search1" ELSE "search2")

\* C7: a pass requests the pages 1, 2, ... in turn for as long as has_more
\* is set; it ends after a page with has_more set only by returning that
\* page's exact match, and a note that matches on any page, the last
\* included, is found.
C7_AllPagesScanned ==
    \A r \in Runs :
        /\ \A kind \in {"quoted", "unquoted"} :
              LET P == PassPages(r, kind)
              IN  /\ \A i \in 1..Len(P) :
                        /\ P[i].page = i
                        /\ i < Len(P) => P[i].has_more /\ ~P[i].failed
                  /\ PassOver(r, kind) /\ LastPage(r, kind).has_more =>
                        /\ kind = "quoted"
                        /\ ExactIn(LastPage(r, kind).items, title[r]) # <<>>
        /\ Completed(r) /\ ~SearchFailed(r) /\ LowestTierId(r, {" "}) # NULL
              => noteId[r] # NULL

\* C7 witness: the first page of the quoted pass has a note that matches at
\* no tier, the match is on the second page, and it is found.
C7_Witness ==
    \E r \in Runs :
        /\ Completed(r) /\ ~SearchFailed(r)
        /\ Len(PassPages(r, "quoted")) = 2
        /\ PassPages(r, "quoted")[1].items # <<>>
        /\ PassPages(r, "quoted")[1].has_more
        /\ CaseVariantsIn(PassPages(r, "quoted")[1].items, title[r]) = <<>>
        /\ FirstTokenIn(PassPages(r, "quoted")[1].items, title[r], {" "}) = <<>>
        /\ PassPages(r, "quoted")[2].items # <<>>
        /\ noteId[r] = PassPages(r, "quoted")[2].items[1].id

\* The title has a character that sanitisation removes.
HasSpecial(t) == \E i \in 1..Len(t) : t[i] \in {"\"", "*"}

\* The title without any '"' and '*'.
WithoutSpecial(t) == SelectSeq(t, LAMBDA c : c # "\"" /\ c # "*")

\* C8: for a title with '"' or '*', every search query carries the title
\* with these characters removed, while the notes are compared with the
\* original title: a returned note with that literal title is the result,
\* and failing that its shortest case variant.
C8_SanitiseQueryOnly ==
    \A r \in Runs :
        HasSpecial(title[r]) =>
            /\ \A i \in 1..Len(reqs[r]) :
                  reqs[r][i].kind \in {"quoted", "unquoted"}
                      => reqs[r][i].query.text = WithoutSpecial(title[r])
            /\ Completed(r) /\ ExactIn(QuotedSeen(r), title[r]) # <<>>
                  => noteId[r] = FirstId(ExactIn(QuotedSeen(r), title[r]))
            /\ /\ Completed(r) /\ ~SearchFailed(r)
               /\ ExactIn(QuotedSeen(r), title[r]) = <<>>
               /\ CaseVariantsIn(QuotedSeen(r), title[r]) # <<>>
               => noteId[r] =
                     ShortestFirstId(CaseVariantsIn(QuotedSeen(r), title[r]))

\* C8 witness: a title with '"' and '*' resolved to the note with exactly
\* that title.
C8_Witness ==
    \E r \in Runs :
        /\ Completed(r)
        /\ HasSpecial(title[r])
        /\ \E i \in 1..Len(QuotedSeen(r)) :
              /\ QuotedSeen(r)[i].title = title[r]
              /\ noteId[r] = QuotedSeen(r)[i].id

\* No tier has a candidate for run r.
NoCandidate(r) == Completed(r) /\ LowestTierId(r, {" "}) = NULL

\* The commands run r gave to the host.
CmdsOf(r) == SelectSeq(cmds, LAMBDA c : c.run = r)

\* C9: when no tier yields a candidate for the title part of the target,
\* handleMessage issues no openNote and responds {error: 'not_found',
\* title} with the title part; the preview then shows a notice naming that
\* title, the editor shows none.
C9_NotFoundReported ==
    \A r \in Runs :
        NoCandidate(r) =>
            /\ CmdsOf(r) = <<>>
            /\ pc[r] \in {"returned", "done"}
            /\ resp[r] = NotFoundResp(TitleOf(msg[r].target))
            /\ notice[r] =
                  IF pc[r] = "done" /\ msg[r].surface = "preview"
                  THEN Alert(TitleOf(msg[r].target))
                  ELSE NoNotice

\* C9 witness: the preview has shown the notice for a title no note has.
C9_Witness ==
    \E r \in Runs :
        /\ NoCandidate(r) /\ ~SearchFailed(r)
        /\ msg[r].surface = "preview"
        /\ msg[r].target = T_tea \o <<"#", "T", "o", "p">>
        /\ pc[r] = "done"
        /\ notice[r] = Alert(T_tea)

\* C10: a failed search request of either pass ends the resolution with
\* NotFound, handed to handleMessage as a value, also when an earlier page
\* had produced a case-insensitive or first-word candidate.
C10_FailureIsNotFound ==
    \A r \in Runs :
        SearchFailed(r) =>
            /\ Completed(r)
            /\ noteId[r] = NULL
            /\ resp[r] = NotFoundResp(title[r])
            /\ CmdsOf(r) = <<>>

\* C10 witness: the second page failed after the first had produced a
\* case-insensitive candidate.
C10_Witness ==
    \E r \in Runs :
        /\ SearchFailed(r)
        /\ Len(pages[r]) = 2
        /\ ciMatch[r].id # NULL
        /\ fwMatch[r].id # NULL
        /\ noteId[r] = NULL

\* ------------------------------------------------------------------------
\* handleMessage: routing of the target
\* ------------------------------------------------------------------------

\* The text of a target after its first '#' (<<>> when there is none).
HeadingOf(raw) ==
    IF \E i \in 1..Len(raw) : raw[i] = "#"
    THEN LET h == Min({i \in 1..Len(raw) : raw[i] = "#"})
         IN  SubSeq(raw, h + 1, Len(raw))
    ELSE <<>>

\* The text of a target before its first '#'.
TitlePartOf(raw) ==
    IF \E i \in 1..Len(raw) : raw[i] = "#"
    THEN SubSeq(raw, 1, Min({i \in 1..Len(raw) : raw[i] = "#"}) - 1)
    ELSE raw

\* Run r has left handleMessage's body: its command was issued or its
\* response returned.
Ended(r) == pc[r] \in {"command", "returned", "done"}

OpenNotesOf(r) == SelectSeq(CmdsOf(r), LAMBDA c : c.name = "openNote")
ScrollsOf(r)   == SelectSeq(CmdsOf(r), LAMBDA c : c.name = "scrollToHash")

\* C11: for a target '#' followed by heading text (empty title, heading
\* present) handleMessage never calls resolveNoteId (no request is made),
\* never issues openNote, and issues exactly one scrollToHash with the
\* slug of the heading.
C11_SameNoteJump ==
    \A r \in Runs :
        (TitlePartOf(msg[r].target) = <<>> /\ HeadingOf(msg[r].target) # <<>>) =>
            /\ reqs[r] = <<>>
            /\ OpenNotesOf(r) = <<>>
            /\ Ended(r) =>
                 /\ Len(ScrollsOf(r)) = 1
                 /\ ScrollsOf(r)[1].anchor = headingToSlug(HeadingOf(msg[r].target))

\* C12: resolveNoteId is never invoked with an empty title: for every
\* non-empty target, a run that has made a request of the resolver
\* resolves a non-empty title.
C12_NeverEmptyTitle ==
    \A r \in Runs :
        (msg[r].target # <<>> /\ reqs[r] # <<>>) => title[r] # <<>>

\* The ways a run with a non-empty title part may end, but for the anchor:
\* at most one openNote ever, issued only once the resolution has returned
\* an id and carrying that id; at the end either that single openNote and
\* no not_found response, or the not_found response and no openNote.
OpenOrNotFound(r) ==
    /\ ScrollsOf(r) = <<>>
    /\ Len(OpenNotesOf(r)) <= 1
    /\ OpenNotesOf(r) # <<>> =>
         /\ Completed(r)
         /\ noteId[r] # NULL
         /\ OpenNotesOf(r)[1].id = noteId[r]
    /\ Ended(r) =>
         \/ Len(OpenNotesOf(r)) = 1 /\ resp[r] = Undefined
         \/ OpenNotesOf(r) = <<>> /\ resp[r] = NotFoundResp(TitlePartOf(msg[r].target))

\* C13 as stated: the openNote carries the heading slug as anchor if and
\* only if a heading fragment is present in the target.
C13_AnchorIffHeading ==
    \A r \in Runs :
        TitlePartOf(msg[r].target) # <<>> =>
            /\ OpenOrNotFound(r)
            /\ OpenNotesOf(r) # <<>> =>
                 /\ (OpenNotesOf(r)[1].anchor # <<>>) <=> (HeadingOf(msg[r].target) # <<>>)
                 /\ HeadingOf(msg[r].target) # <<>> =>
                      OpenNotesOf(r)[1].anchor = headingToSlug(HeadingOf(msg[r].target))

\* C13: each run with a non-empty title part ends with a single openNote,
\* issued only after the resolution returned an id and carrying that id, or
\* with a not_found response and no openNote; the openNote carries the
\* heading slug as anchor if and only if the target has a heading whose
\* slug is not empty.
C13_AnchorIffSlug ==
    \A r \in Runs :
        TitlePartOf(msg[r].target) # <<>> =>
            /\ OpenOrNotFound(r)
            /\ OpenNotesOf(r) # <<>> =>
                 LET h == HeadingOf(msg[r].target)
                     s == IF h = <<>> THEN <<>> ELSE headingToSlug(h)
                 IN  OpenNotesOf(r)[1].anchor = s

\* C13 witness: a run for "Apple#Top" has opened a note with the anchor
\* "top".
C13_Witness ==
    \E r \in Runs :
        /\ msg[r].target = T_Apple \o <<"#", "T", "o", "p">>
        /\ pc[r] = "done"
        /\ Len(OpenNotesOf(r)) = 1
        /\ OpenNotesOf(r)[1].anchor = <<"t", "o", "p">>
        /\ OpenNotesOf(r)[1].id = noteId[r]

\* ------------------------------------------------------------------------
\* The wikilink scanners: findWikilinks (editor) and wikilinkInlineRule
\* (preview)
\* ------------------------------------------------------------------------

\* Largest number of pieces a scanned document is made of.
MaxPieces == 4

\* Largest gap between two visible ranges of the editor.
MaxGap == 1

\* The pieces of the scanned documents.
DocPieces ==
    {<<"[", "[">>, <<"[", "[", "a">>, <<"]", "]">>, <<"a">>, <<"|">>, <<"#">>}

RECURSIVE Concat(_)
Concat(ps) == IF ps = <<>> THEN <<>> ELSE Head(ps) \o Concat(Tail(ps))

\* The documents given to the scanners.
ScanDocs ==
    {Concat(ps) : ps \in UNION {[1..n -> DocPieces] : n \in 0..MaxPieces}}

Max(S) == CHOOSE x \in S : \A y \in S : x >= y

\* Mutant of InnerChar: any character may stand between the brackets.
InnerChar_Any(c) == TRUE

\* [^\[\]] : the characters WIKILINK_RE admits between the brackets.
InnerChar(c) == c \notin {"[", "]"}

\* The offsets at which a match of WIKILINK_RE = /\[\[([^\[\]]+)\]\]/g that
\* starts at offset i of text can end.
MatchEnds(text, i) ==
    {j \in (i + 5)..Len(text) :
        /\ text[i + 1] = "[" /\ text[i + 2] = "["
        /\ \A k \in (i + 3)..(j - 2) : InnerChar(text[k])
        /\ text[j - 1] = "]" /\ text[j] = "]"}

\* while ((m = WIKILINK_RE.exec(text)) !== null): the matches from
\* lastIndex on, leftmost first, each the longest at its start (the
\* quantifier is greedy), the search resuming at the end of the match.
RECURSIVE ExecAll(_, _)
ExecAll(text, lastIndex) ==
    LET starts == {i \in lastIndex..(Len(text) - 5) : MatchEnds(text, i) # {}}
    IN  IF starts = {} THEN <<>>
        ELSE LET index == Min(starts)
                 end   == Max(MatchEnds(text, index))
             IN  <<[index |-> index, len |-> end - index,
                    group |-> Slice(text, index + 2, end - 2)]>>
                 \o ExecAll(text, end)

\* The WikilinkRange pushed for match m of the range starting at from
\* (aliasStart = -1 stands for undefined).
WikilinkRange(from, m) ==
    LET absFrom == from + m.index
        raw     == m.group
        pipeIdx == IndexOf(raw, "|")
    IN  [from |-> absFrom,
         to |-> absFrom + m.len,
         target |-> IF pipeIdx >= 0 THEN Slice(raw, 0, pipeIdx) ELSE raw,
         aliasStart |-> IF pipeIdx >= 0 THEN absFrom + 2 + pipeIdx + 1 ELSE -1]

\* The occurrences of one visible range, those starting in code skipped.
RECURSIVE RangeLinks(_, _, _)
RangeLinks(from, ms, code) ==
    IF ms = <<>> THEN <<>>
    ELSE (IF from + Head(ms).index \in code
          THEN <<>>
          ELSE <<WikilinkRange(from, Head(ms))>>)
         \o RangeLinks(from, Tail(ms), code)

\* findWikilinks(view): d is the document, ranges view.visibleRanges, code
\* the offsets isInsideCode answers true for.
RECURSIVE findWikilinks(_, _, _)
findWikilinks(d, ranges, code) ==
    IF ranges = <<>> THEN <<>>
    ELSE LET r    == Head(ranges)
             text == Slice(d, r.from, r.to)
         IN  RangeLinks(r.from, ExecAll(text, 0), code)
             \o findWikilinks(d, Tail(ranges), code)

\* view.visibleRanges: the whole document, or two ranges in document order
\* with a gap between them.
VisibleRanges(d) ==
    {<<[from |-> 0, to |-> Len(d)]>>}
    \cup {<<[from |-> 0, to |-> p],
             [from |-> Min({p + g, Len(d)}), to |-> Len(d)]>> :
            p \in 0..Len(d), g \in 0..MaxGap}

\* The offsets the host's syntax tree places in code: none, or all from
\* some offset on.  isInsideCode is asked about the starts of matches only,
\* so the regions are told apart by the first double bracket they hold.
CodeRegions(d) ==
    {{}} \cup {a..(Len(d) - 1) :
                 a \in {i \in 0..(Len(d) - 2) : d[i + 1] = "[" /\ d[i + 2] = "["}}

\* src.indexOf(']]', from).
IndexOfClose(src, from) ==
    LET hits == {i \in from..(Len(src) - 2) :
                    src[i + 1] = "]" /\ src[i + 2] = "]"}
    IN  IF hits = {} THEN -1 ELSE Min(hits)

\* The inline rule returned false.
NoMatch == [ok |-> FALSE]

\* Mutant of DisplayText: the heading is never cut from the target.
DisplayText_Raw(target, alias) == IF alias # <<>> THEN alias ELSE target

\* const displayText = alias ? alias
\*   : (hashIdx >= 0 ? target.slice(0, hashIdx) || target.slice(hashIdx + 1)
\*                   : target)
\* (alias <<>> stands for null and for the empty string: both are falsy).
DisplayText(target, alias) ==
    LET hashIdx == IndexOf(target, "#")
    IN  IF alias # <<>> THEN alias
        ELSE IF hashIdx >= 0
             THEN IF Slice(target, 0, hashIdx) # <<>>
                  THEN Slice(target, 0, hashIdx)
                  ELSE SliceFrom(target, hashIdx + 1)
             ELSE target

\* wikilinkInlineRule(state, false) at state.pos = pos of state.src = src:
\* the token it emits and the position it leaves in state.pos.
wikilinkInlineRule(src, pos) ==
    IF \/ pos + 2 > Len(src)
       \/ src[pos + 1] # "["
       \/ src[pos + 2] # "["
    THEN NoMatch
    ELSE LET end == IndexOfClose(src, pos + 2)
         IN  IF end < 0 THEN NoMatch
             ELSE LET raw == Slice(src, pos + 2, end)
                  IN  IF raw = <<>> THEN NoMatch
                      ELSE LET pipeIdx == IndexOf(raw, "|")
                               target  == IF pipeIdx >= 0
                                          THEN Slice(raw, 0, pipeIdx) ELSE raw
                               alias   == IF pipeIdx >= 0
                                          THEN SliceFrom(raw, pipeIdx + 1)
                                          ELSE <<>>
                           IN  [ok |-> TRUE, from |-> pos, to |-> end + 2,
                                target |-> target,
                                hasAlias |-> pipeIdx >= 0,
                                alias |-> alias,
                                displayText |-> DisplayText(target, alias)]

\* markdownIt.inline.ruler.push('wikilink', wikilinkInlineRule): the inline
\* parser offers each position of plain text to the rule, and goes on from
\* state.pos after a match, from the next character otherwise.
RECURSIVE RenderFrom(_, _)
RenderFrom(src, pos) ==
    IF pos >= Len(src) THEN <<>>
    ELSE LET t == wikilinkInlineRule(src, pos)
         IN  IF t.ok THEN <<t>> \o RenderFrom(src, t.to)
             ELSE RenderFrom(src, pos + 1)

\* A document is open in the editor and in the preview; nothing scanned.
ScanInit ==
    /\ InitRuns({})
    /\ doc \in ScanDocs
    /\ links = NotScanned
    /\ tokens = NotScanned
    /\ conv = ConvIdle
    /\ follow = NoFollow

\* The decoration plugin scans the document.
ScanEditor ==
    /\ ~links.done
    /\ \E ranges \in VisibleRanges(doc), code \in CodeRegions(doc) :
          links' = [done |-> TRUE, out |-> findWikilinks(doc, ranges, code)]
    /\ UNCHANGED <<navVars, doc, tokens, conv, follow>>

\* The preview renders the document.
RenderPreview ==
    /\ ~tokens.done
    /\ tokens' = [done |-> TRUE, out |-> RenderFrom(doc, 0)]
    /\ UNCHANGED <<navVars, doc, links, conv, follow>>

ScanNext == ScanEditor \/ RenderPreview

ScanSpec == ScanInit /\ [][ScanNext]_vars

\* ------------------------------------------------------------------------
\* The scanners' occurrences
\* ------------------------------------------------------------------------

C17_TargetNeverEmpty ==
    /\ \A i \in DOMAIN links.out : links.out[i].target # <<>>
    /\ \A i \in DOMAIN tokens.out : tokens.out[i].target # <<>>

\* The text of the document between the brackets of an occurrence.
InnerOf(l) == SubSeq(doc, l.from + 3, l.to - 2)

\* C18: findWikilinks returns its occurrences in increasing document
\* order with pairwise non-overlapping spans [from, to), and each span
\* holds one wikilink: two adjacent wikilinks are two occurrences, never
\* one.
C18_OrderedDisjoint ==
    /\ \A i, j \in DOMAIN links.out :
          i < j => links.out[i].to <= links.out[j].from
    /\ \A i \in DOMAIN links.out :
          LET l == links.out[i]
          IN  /\ 0 <= l.from /\ l.from + 5 <= l.to /\ l.to <= Len(doc)
              /\ SubSeq(doc, l.from + 1, l.from + 2) = <<"[", "[">>
              /\ SubSeq(doc, l.to - 1, l.to) = <<"]", "]">>
              /\ \A k \in DOMAIN InnerOf(l) : InnerOf(l)[k] \notin {"[", "]"}

\* C18 witness: the two adjacent wikilinks of [[a]][[a]] were returned as
\* two occurrences.
C18_Witness ==
    /\ doc = <<"[", "[", "a", "]", "]", "[", "[", "a", "]", "]">>
    /\ links.done
    /\ Len(links.out) = 2
    /\ links.out[1].from = 0 /\ links.out[1].to = 5
    /\ links.out[2].from = 5 /\ links.out[2].to = 10

\* ------------------------------------------------------------------------
\* The convertToWikilink command of the editor
\* ------------------------------------------------------------------------

\* Largest number of pieces of a document under conversion.
MaxConvPieces == 2

\* [text](:/noteId) and [text](:/noteId#slug), for the note HexIdStr.
JoplinLinkText(text, sl) ==
    <<"[">> \o text \o <<"]", "(", ":", "/">> \o HexId
    \o (IF sl = <<>> THEN <<>> ELSE <<"#">> \o sl) \o <<")">>

\* The pieces of the documents under conversion; the documents have one
\* line.
ConvPieces ==
    { JoplinLinkText(<<"a">>, <<>>),
      JoplinLinkText(<<>>, <<>>),
      JoplinLinkText(<<"b">>, <<"s">>) }

ConvDocs ==
    {Concat(ps) : ps \in UNION {[1..n -> ConvPieces] : n \in 0..MaxConvPieces}}

\* The titles of the note HexIdStr in the stores of the conversion.
ConvTitles == {<<>>, <<"a">>, <<"A">>, <<"b">>, <<"a", " ", "c">>}

ConvStores == {{}} \cup {{[id |-> HexIdStr, title |-> t]} : t \in ConvTitles}

\* The end of the match of JOPLIN_LINK_RE =
\* /\[([^\]]*)\]\(:\/([a-f0-9]{32})(?:#([^)]*))?\)/g at offset i of text,
\* with its groups; ok is FALSE when there is no match at i.
JoplinMatchAt(text, i) ==
    LET closes == {c \in (i + 1)..(Len(text) - 1) : text[c + 1] = "]"}
        c      == IF closes = {} THEN Len(text) ELSE Min(closes)
        e      == c + 4 + IdLen
        parens == {q \in (e + 1)..(Len(text) - 1) : text[q + 1] = ")"}
        fail   == [ok |-> FALSE, index |-> i, end |-> i, text |-> <<>>,
                   noteId |-> <<>>, slug |-> <<>>]
    IN  IF \/ i + 1 > Len(text)
           \/ text[i + 1] # "["
           \/ closes = {}
           \/ e + 1 > Len(text)
           \/ SubSeq(text, c + 2, c + 4) # <<"(", ":", "/">>
           \/ \E k \in (c + 5)..e : text[k] \notin HexChars
        THEN fail
        ELSE IF text[e + 1] = ")"
             THEN [ok |-> TRUE, index |-> i, end |-> e + 1,
                   text |-> Slice(text, i + 1, c),
                   noteId |-> Slice(text, c + 4, e), slug |-> <<>>]
        ELSE IF text[e + 1] = "#" /\ parens # {}
             THEN [ok |-> TRUE, index |-> i, end |-> Min(parens) + 1,
                   text |-> Slice(text, i + 1, c),
                   noteId |-> Slice(text, c + 4, e),
                   slug |-> Slice(text, e + 1, Min(parens))]
        ELSE fail

\* while ((m = JOPLIN_LINK_RE.exec(line.text)) !== null) links.push(...)
RECURSIVE JoplinLinks(_, _, _)
JoplinLinks(text, lineFrom, lastIndex) ==
    LET starts == {i \in lastIndex..(Len(text) - 1) : JoplinMatchAt(text, i).ok}
    IN  IF starts = {} THEN <<>>
        ELSE LET m == JoplinMatchAt(text, Min(starts))
             IN  <<[from |-> lineFrom + m.index, to |-> lineFrom + m.end,
                    text |-> m.text, noteId |-> m.noteId, slug |-> m.slug]>>
                 \o JoplinLinks(text, lineFrom, m.end)

Abs(x) == IF x < 0 THEN 0 - x ELSE x

\* Math.min(Math.abs(head - l.from), Math.abs(head - l.to))
Dist(h, l) == Min({Abs(h - l.from), Abs(h - l.to)})

\* The nearest of ls to h, the earlier one on a tie.
RECURSIVE Nearest(_, _, _)
Nearest(h, ls, best) ==
    IF ls = <<>> THEN best
    ELSE Nearest(h, Tail(ls),
                 IF Dist(h, Head(ls)) < Dist(h, best) THEN Head(ls) ELSE best)

\* findJoplinLinkAtCursor(view) for a document of one line: the links of
\* the line, and of them the first that holds the cursor, else the
\* nearest; <<>> when the line has no link.
findJoplinLinkAtCursor(d, h) ==
    LET ls     == JoplinLinks(d, 0, 0)
        inside == {i \in DOMAIN ls : h >= ls[i].from /\ h <= ls[i].to}
    IN  IF ls = <<>> THEN <<>>
        ELSE IF inside # {} THEN <<ls[Min(inside)]>>
        ELSE <<Nearest(h, Tail(ls), Head(ls))>>

\* view.state.sliceDoc(from, to): offsets past the end are clamped.
sliceDoc(d, from, to) ==
    SubSeq(d, Min({from, Len(d)}) + 1, Min({to, Len(d)}))

\* handleMessage for { name: 'resolveTitle', noteId }, and the round trip
\* of context.postMessage: the title of the note when the store has it and
\* it is not empty, else <<>> (a null title, or a failed postMessage).
ResolveTitle(S, id) ==
    {n.title : n \in {m \in S : Spells(m.id, id)}} \cup {<<>>}

\* Mutant of NeedsAlias: the first word of the title is not looked at.
NeedsAlias_TextDiffers(link, t) == link.text # <<>> /\ link.text # t

\* const needsAlias = link.text && link.text !== title
\*     && link.text.toLowerCase() !== title.toLowerCase().split(' ')[0]
NeedsAlias(link, t) ==
    /\ link.text # <<>>
    /\ link.text # t
    /\ toLowerCase(link.text) # FirstWord(toLowerCase(t))

\* The wikilink written for link and the title t.
WikilinkFor(link, t) ==
    LET base   == IF NeedsAlias(link, t) THEN t
                  ELSE IF link.text # <<>> THEN link.text ELSE t
        target == IF link.slug # <<>> THEN base \o <<"#">> \o link.slug
                  ELSE base
    IN  IF NeedsAlias(link, t)
        THEN <<"[", "[">> \o target \o <<"|">> \o link.text \o <<"]", "]">>
        ELSE <<"[", "[">> \o target \o <<"]", "]">>

\* Mutant of SpanUnchanged: the snapshot is not looked at.
SpanUnchanged_Always(d, link, original) == TRUE

\* view.state.sliceDoc(link.from, link.to) === original
SpanUnchanged(d, link, original) == sliceDoc(d, link.from, link.to) = original

\* view.dispatch({ changes: { from, to, insert } })
Dispatch(d, from, to, insert) ==
    SubSeq(d, 1, Min({from, Len(d)})) \o insert
    \o SubSeq(d, Min({to, Len(d)}) + 1, Len(d))

\* view.state.selection.main.head: the cursor, at an end of the document,
\* at an end of one of its links or after the first character of one.
Heads(d) ==
    LET ls == JoplinLinks(d, 0, 0)
    IN  {0, Len(d)} \cup UNION {{ls[i].from, ls[i].from + 1, ls[i].to} :
                                   i \in DOMAIN ls}

\* No followWikilink run.
NoRuns ==
    /\ msg = <<>> /\ pc = <<>> /\ title = <<>> /\ slug = <<>>
    /\ page = <<>> /\ ciMatch = <<>> /\ fwMatch = <<>> /\ noteId = <<>>
    /\ reqs = <<>> /\ pages = <<>> /\ lookup = <<>> /\ resp = <<>>
    /\ notice = <<>> /\ cmds = <<>>

\* A document is open in the editor, the command not yet given.
ConvInit ==
    /\ NoRuns
    /\ store \in ConvStores
    /\ doc \in ConvDocs
    /\ links = NotScanned
    /\ tokens = NotScanned
    /\ conv = ConvIdle
    /\ follow = NoFollow

\* registerCommand('convertToWikilink'): no link on the cursor's line.
ConvertNoLink ==
    /\ conv.pc = "idle"
    /\ \E h \in Heads(doc) : findJoplinLinkAtCursor(doc, h) = <<>>
    /\ conv' = [conv EXCEPT !.pc = "done", !.snapshot = doc, !.before = doc]
    /\ UNCHANGED <<navVars, doc, links, tokens, follow>>

\* registerCommand('convertToWikilink') and convertToWikilink up to its
\* await: the span is snapshotted and resolveTitle posted.
ConvertStart ==
    /\ conv.pc = "idle"
    /\ \E h \in Heads(doc) :
          /\ findJoplinLinkAtCursor(doc, h) # <<>>
          /\ LET link == findJoplinLinkAtCursor(doc, h)[1]
             IN  conv' = [conv EXCEPT
                            !.pc = "waiting", !.link = link,
                            !.original = sliceDoc(doc, link.from, link.to),
                            !.snapshot = doc]
    /\ UNCHANGED <<navVars, doc, links, tokens, follow>>

\* The places of a change made during the lookup: the ends of the
\* document, the ends of the link's span and the offset after its first
\* character.
EditPoints(d) ==
    {0, conv.link.from, conv.link.from + 1, conv.link.to, Len(d)}
    \cap 0..Len(d)

\* The documents the editor can hold while the lookup is pending: the
\* snapshotted document with some text of it replaced, and the documents
\* of the other notes (one link, or empty).
EditedDocs ==
    {Dispatch(conv.snapshot, c.from, c.to, c.insert) :
        c \in {x \in [from : EditPoints(conv.snapshot),
                      to : EditPoints(conv.snapshot),
                      insert : {<<>>, <<"x">>, conv.original}] :
                 x.from <= x.to}}
    \cup ConvPieces \cup {<<>>}

\* The user changes the document while the lookup is pending (an edit, an
\* undo, another note opened in the editor), any number of times.
UserEdit ==
    /\ conv.pc = "waiting"
    /\ \E d \in EditedDocs : d # doc /\ doc' = d
    /\ conv' = [conv EXCEPT !.edits = 1]
    /\ UNCHANGED <<navVars, links, tokens, follow>>

\* convertToWikilink after its await.
ConvertResume ==
    /\ conv.pc = "waiting"
    /\ \E answer \in ResolveTitle(store, conv.link.noteId) :
          LET t == IF answer # <<>> THEN answer ELSE conv.link.text
          IN  IF t # <<>> /\ SpanUnchanged(doc, conv.link, conv.original)
              THEN /\ doc' = Dispatch(doc, conv.link.from, conv.link.to,
                                      WikilinkFor(conv.link, t))
                   /\ conv' = [conv EXCEPT !.pc = "done", !.title = t,
                                           !.before = doc, !.applied = TRUE]
              ELSE /\ doc' = doc
                   /\ conv' = [conv EXCEPT !.pc = "done", !.title = t,
                                           !.before = doc]
    /\ UNCHANGED <<navVars, links, tokens, follow>>

ConvNext == ConvertNoLink \/ ConvertStart \/ UserEdit \/ ConvertResume

ConvSpec == ConvInit /\ [][ConvNext]_vars

\* ------------------------------------------------------------------------
\* The snapshot check of convertToWikilink
\* ------------------------------------------------------------------------

\* The text document d holds at the span [from, to).
TextAt(d, from, to) ==
    LET a == Min({from, Len(d)})
        b == Min({to, Len(d)})
    IN  [i \in 1..(b - a) |-> d[a + i]]

\* The command reached its end after a title lookup.
Converted == conv.pc = "done" /\ conv.link # NoLink

\* The document the command resumed on held, at the link's recorded span,
\* the text of the snapshot.
SpanIntact == TextAt(conv.before, conv.link.from, conv.link.to) = conv.original

\* C14: convertToWikilink applies its replacement only if the text at the
\* link's recorded span after the lookup is identical to the snapshot
\* taken before it; if it differs, no edit is dispatched and the document
\* is left as the command found it.
C14_SnapshotGuard ==
    Converted =>
        /\ conv.applied => SpanIntact
        /\ ~SpanIntact => (~conv.applied /\ doc = conv.before)

\* C14 witness: the span was changed during the lookup, a title was there
\* to insert, and the command ended without an edit.
C14_Witness ==
    /\ Converted
    /\ conv.edits = 1
    /\ conv.title # <<>>
    /\ ~SpanIntact
    /\ ~conv.applied
    /\ doc = conv.before

\* C15: if the document changes in any way between the snapshot and the
\* moment the edit would be applied (an edit anywhere, another note
\* opened), the edit is discarded.
C15_DiscardOnAnyChange ==
    (Converted /\ conv.before # conv.snapshot) => ~conv.applied

\* ------------------------------------------------------------------------
\* The requests of one resolution
\* ------------------------------------------------------------------------

\* The place of a kind of request in a resolution.
KindRank(k) == CASE k = "lookup" -> 0 [] k = "quoted" -> 1 [] OTHER -> 2

\* The requests of run r of one kind, in the order they were made.
ReqsOf(r, kind) == SelectSeq(reqs[r], LAMBDA q : q.kind = kind)

\* The search requests of run r (all but the direct lookup).
SearchReqs(r) == SelectSeq(reqs[r], LAMBDA q : q.kind # "lookup")

\* C20: within one resolution there is at most one direct lookup, made
\* first; then the pages 1, 2, 3, ... of the quoted query in increasing
\* order; then, if issued, the pages 1, 2, 3, ... of the unquoted query.
\* No (query, page) pair is requested twice, no request follows a failed
\* one, and none follows the page on which the exact match was found.
C20_RequestOrder ==
    \A r \in Runs :
        /\ Len(ReqsOf(r, "lookup")) <= 1
        /\ \A i, j \in DOMAIN reqs[r] :
              i < j => /\ KindRank(reqs[r][i].kind) <= KindRank(reqs[r][j].kind)
                       /\ reqs[r][i] # reqs[r][j]
        /\ \A k \in DOMAIN ReqsOf(r, "quoted") : ReqsOf(r, "quoted")[k].page = k
        /\ \A k \in DOMAIN ReqsOf(r, "unquoted") : ReqsOf(r, "unquoted")[k].page = k
        /\ \A i \in DOMAIN pages[r] :
              (\/ pages[r][i].failed
               \/ /\ pages[r][i].kind = "quoted"
                  /\ \E k \in DOMAIN pages[r][i].items :
                        pages[r][i].items[k].title = title[r])
              => /\ i = Len(pages[r])
                 /\ Len(SearchReqs(r)) = i
                 /\ Completed(r)

\* C20 witness: a resolution made the direct lookup, two requests of the
\* quoted query and two of the unquoted one, the last of which failed.
C20_Witness ==
    \E r \in Runs :
        /\ Completed(r)
        /\ Len(reqs[r]) = 5
        /\ reqs[r][1].kind = "lookup"
        /\ reqs[r][3] = QuotedReq(title[r], 2)
        /\ reqs[r][5] = UnquotedReq(title[r], 2)
        /\ pages[r][4].failed

\* ------------------------------------------------------------------------
\* Two follow actions in flight
\* ------------------------------------------------------------------------

\* Two follow actions, the first from the editor, the second from the
\* preview, and the store they run over.
PairInputs ==
    LET top == <<"#", "T", "o", "p">>
        n1  == [id |-> "1", title |-> T_Apple]
        n2  == [id |-> "2", title |-> T_APPLE]
        nx  == [id |-> HexIdStr, title |-> T_TeaStar]
    IN  {[t1 |-> T_apple \o top, t2 |-> T_apple \o top, store |-> {n1}],
         [t1 |-> T_apple \o top, t2 |-> T_Apple, store |-> {n2}],
         [t1 |-> HexId, t2 |-> T_Apple, store |-> {nx}],
         [t1 |-> HexId, t2 |-> top, store |-> {}],
         [t1 |-> <<>>, t2 |-> top, store |-> {}]}

\* Two messages have been posted and neither is handled yet.
PairInit ==
    /\ \E p \in PairInputs :
          /\ msg = <<[target |-> p.t1, surface |-> "editor"],
                     [target |-> p.t2, surface |-> "preview"]>>
          /\ store = p.store
    /\ InitRuns({1, 2})
    /\ EditorIdle

PairSpec == PairInit /\ [][Next]_vars

\* The note the host shows after the commands it was given: that of the
\* last openNote (NULL when there was none).
RECURSIVE OpenedBy(_)
OpenedBy(cs) ==
    IF cs = <<>> THEN NULL
    ELSE IF cs[Len(cs)].name = "openNote" THEN cs[Len(cs)].id
    ELSE OpenedBy(SubSeq(cs, 1, Len(cs) - 1))

\* The outcome of run r is the one it has when it runs alone: a function
\* of its own target and of the answers it received.
AsAlone(r) ==
    LET t == TitlePartOf(msg[r].target)
        h == HeadingOf(msg[r].target)
        s == IF h = <<>> THEN <<>> ELSE headingToSlug(h)
    IN  /\ (Completed(r) /\ ~SearchFailed(r)) => noteId[r] = LowestTierId(r, {" "})
        /\ (Completed(r) /\ SearchFailed(r)) => noteId[r] = NULL
        /\ (Ended(r) /\ msg[r].target = <<>>) => (CmdsOf(r) = <<>> /\ resp[r] = Undefined)
        /\ (Ended(r) /\ t = <<>> /\ s # <<>>) =>
              /\ Len(CmdsOf(r)) = 1
              /\ CmdsOf(r)[1].name = "scrollToHash"
              /\ CmdsOf(r)[1].anchor = s
        /\ (Completed(r) /\ noteId[r] = NULL) =>
              (CmdsOf(r) = <<>> /\ resp[r] = NotFoundResp(t))
        /\ (Completed(r) /\ noteId[r] # NULL) =>
              /\ Len(CmdsOf(r)) = 1
              /\ CmdsOf(r)[1].name = "openNote"
              /\ CmdsOf(r)[1].id = noteId[r]
              /\ CmdsOf(r)[1].anchor = s
              /\ resp[r] = Undefined

\* The variables of run r.
RunState(r) ==
    <<msg[r], pc[r], title[r], slug[r], page[r], ciMatch[r], fwMatch[r],
      noteId[r], reqs[r], pages[r], lookup[r], resp[r], notice[r]>>

\* A step is taken by one run: it leaves the other runs as they are and
\* the commands already given in place.
OneRunSteps ==
    /\ \E r \in Runs : \A q \in Runs \ {r} : RunState(q)' = RunState(q)
    /\ Len(cmds') >= Len(cmds)
    /\ SubSeq(cmds', 1, Len(cmds)) = cmds
    /\ store' = store

\* C19: two follow actions that interleave at their suspension points
\* over an unchanged store are independent: each run's outcome is the one
\* it has alone, every run that resolved an id has its own openNote (none
\* is cancelled or merged with the other's), no step of one run touches
\* the other, and the note left open is that of the openNote given last.
C19_Independent ==
    /\ [](\A r \in Runs : AsAlone(r))
    /\ []((cmds # <<>> /\ cmds[Len(cmds)].name = "openNote")
             => OpenedBy(cmds) = noteId[cmds[Len(cmds)].run])
    /\ [][OneRunSteps]_vars

\* C19 witness: both runs resolved the same note and each gave its own
\* openNote, the second run's before the first run's.
C19_Witness ==
    /\ pc[1] = "done" /\ pc[2] = "done"
    /\ noteId[1] # NULL /\ noteId[1] = noteId[2]
    /\ Len(cmds) = 2
    /\ cmds[1].run = 2 /\ cmds[2].run = 1
    /\ cmds[1].name = "openNote" /\ cmds[2].name = "openNote"
    /\ OpenedBy(cmds) = noteId[1]

\* ------------------------------------------------------------------------
\* The second, unquoted query
\* ------------------------------------------------------------------------

\* The title has a space character in it.
HasSpace(t) == \E i \in DOMAIN t : t[i] = " "

\* C21: for a (non-empty) title without a space, tier 4 is decided from the
\* pages of the quoted query alone: no unquoted query is requested.
C21_NoSecondQuery ==
    \A r \in Runs :
        (title[r] # <<>> /\ ~HasSpace(title[r])) => ReqsOf(r, "unquoted") = <<>>

\* Some page of the quoted query of run r failed.
QuotedFailed(r) ==
    \E i \in DOMAIN pages[r] : pages[r][i].kind = "quoted" /\ pages[r][i].failed

\* C25: for a title with a space character tier 4 never has a candidate:
\* the result is the tier 2 or tier 3 match or NotFound; and when the
\* quoted pages end without a tier 2 or 3 match the unquoted query is
\* requested, whatever it returns the result being NotFound.
C25_SpacedTitleNoTier4 ==
    \A r \in Runs : HasSpace(title[r]) =>
        /\ fwMatch[r] = NoCand
        /\ Completed(r) => noteId[r] \in {Tier2Id(r), Tier3Id(r), NULL}
        /\ (Completed(r) /\ ~SearchFailed(r)) =>
               noteId[r] = IF Tier2Id(r) # NULL THEN Tier2Id(r) ELSE Tier3Id(r)
        /\ (Completed(r) /\ ~QuotedFailed(r)
                /\ Tier2Id(r) = NULL /\ Tier3Id(r) = NULL) =>
               /\ ReqsOf(r, "unquoted") # <<>>
               /\ noteId[r] = NULL

\* A run for a title with a space whose unquoted query returned a note, and
\* which ended with NotFound.
C25_Witness ==
    /\ HasSpace(title[1])
    /\ pc[1] = "done"
    /\ ~SearchFailed(1)
    /\ UnquotedSeen(1) # <<>>
    /\ noteId[1] = NULL

\* ------------------------------------------------------------------------
\* The form convertToWikilink writes
\* ------------------------------------------------------------------------

\* "#slug" for a link with a heading slug, nothing for one without.
SlugPart(link) == IF link.slug = <<>> THEN <<>> ELSE <<"#">> \o link.slug

\* The display text d is worth an alias next to the title t.
PipeForm(d, t) ==
    /\ d # <<>>
    /\ d # t
    /\ toLowerCase(d) # FirstWord(toLowerCase(t))

\* C23: an edit applied for a link with display text d and title t writes
\* [[t(#slug)|d]] exactly when d is non-empty, differs from t and,
\* lower-cased, differs from the first space-delimited word of lower-cased
\* t; otherwise it writes [[x(#slug)]] with x = d if d is non-empty, else t.
\* The heading slug of the link is in the target in both forms.
C23_WrittenForm ==
    (Converted /\ conv.applied) =>
        LET d == conv.link.text
            t == conv.title
            x == IF d # <<>> THEN d ELSE t
            written ==
                IF PipeForm(d, t)
                THEN <<"[", "[">> \o t \o SlugPart(conv.link)
                     \o <<"|">> \o d \o <<"]", "]">>
                ELSE <<"[", "[">> \o x \o SlugPart(conv.link) \o <<"]", "]">>
        IN  doc = TextAt(conv.before, 0, conv.link.from) \o written
                  \o TextAt(conv.before, conv.link.to, Len(conv.before))

\* An edit was applied for a link with a heading slug whose display text
\* is not the title nor its first word: the pipe form was written.
C23_Witness ==
    /\ Converted
    /\ conv.applied
    /\ conv.link.slug # <<>>
    /\ PipeForm(conv.link.text, conv.title)

\* ------------------------------------------------------------------------
\* The editor's scanner against the preview's
\* ------------------------------------------------------------------------

\* The spans and navigation targets of a scanner's occurrences.
Occurrences(out) ==
    [i \in DOMAIN out |->
        [from |-> out[i].from, to |-> out[i].to, target |-> out[i].target]]

\* The editor's scan is the one of the whole document with nothing in code.
WholeScan ==
    links.out = findWikilinks(doc, <<[from |-> 0, to |-> Len(doc)]>>, {})

\* C22: on the same text (all of it visible, none of it code) findWikilinks
\* and wikilinkInlineRule recognise the same occurrences at the same
\* positions, with the same navigation target each.
C22_SameOccurrences ==
    (links.done /\ tokens.done /\ WholeScan) =>
        Occurrences(links.out) = Occurrences(tokens.out)

\* ------------------------------------------------------------------------
\* The follow action of the editor
\* ------------------------------------------------------------------------

\* The message followWikilinkAtPos posts for link.
FollowMessage(link) ==
    [name |-> "followWikilink", target |-> link.target, link |-> link]

\* pos >= link.from && pos <= link.to
InSpan(pos, link) == pos >= link.from /\ pos <= link.to

\* followWikilinkAtPos(pos, view, context): the document is scanned, and a
\* message posted for the first occurrence whose span holds pos; pos is the
\* offset view.posAtCoords answered for the click or the long press.
FollowWikilinkAtPos ==
    /\ ~follow.done
    /\ \E pos \in 0..Len(doc),
          ranges \in VisibleRanges(doc), code \in CodeRegions(doc) :
          LET ls   == findWikilinks(doc, ranges, code)
              hits == {i \in DOMAIN ls : InSpan(pos, ls[i])}
          IN  /\ links' = [done |-> TRUE, out |-> ls]
              /\ follow' = [done |-> TRUE, pos |-> pos,
                            sent |-> IF hits = {} THEN <<>>
                                     ELSE <<FollowMessage(ls[Min(hits)])>>]
    /\ UNCHANGED <<navVars, doc, tokens, conv>>

FollowNext == FollowWikilinkAtPos

\* A document is open in the editor; a click or a long press is made on it.
FollowSpec == ScanInit /\ [][FollowNext]_vars

\* C24: a follow action at pos posts a message for a wikilink L only if
\* L.from <= pos < L.to; at most one message is posted per action; and of
\* two adjacent wikilinks, pos being the end of the first and the start of
\* the second, the second is followed.
C24_HalfOpenSpan ==
    follow.done =>
        /\ Len(follow.sent) <= 1
        /\ \A k \in DOMAIN follow.sent :
              /\ follow.sent[k].link.from <= follow.pos
              /\ follow.pos < follow.sent[k].link.to
        /\ \A i, j \in DOMAIN links.out :
              (links.out[i].to = follow.pos /\ links.out[j].from = follow.pos)
                  => follow.sent = <<FollowMessage(links.out[j])>>

\* ------------------------------------------------------------------------
\* Termination
\* ------------------------------------------------------------------------

\* The places of a run: before the handler started, waiting for the direct
\* lookup, for a page of the quoted or of the unquoted query, for the host
\* command, with the response on its way to the surface, and at its end.
PcValues == {"posted", "lookup", "search1", "search2", "command", "returned",
             "done"}

\* The places at which something is under way: the handler is about to run,
\* an awaited call is out, or the response is being delivered.
Pending == PcValues \ {"done"}

\* A step of a run that has not ended: the handler starts, an awaited call
\* (a lookup, a page of a query, a host command) returns or fails and the
\* continuation runs, or the surface receives the response.  Each such
\* step moves the run to another place or advances its page counter, and
\* one is possible at every place of Pending (a call can always fail).
Settles ==
    \E r \in Runs :
        /\ pc[r] \in Pending
        /\ \/ \E v \in PcValues \ {pc[r]}, p \in {1, page[r], page[r] + 1} :
                 /\ pc' = [pc EXCEPT ![r] = v]
                 /\ page' = [page EXCEPT ![r] = p]
           \/ /\ pc' = pc
              /\ page' = [page EXCEPT ![r] = @ + 1]

\* Every external call returns or fails, and the event loop runs the
\* continuation that waits for it: a run that has not ended takes its next
\* step.  The search facility answers has_more unset at page MaxPages at
\* the latest.
FairSpec == Init /\ [][Next]_vars /\ WF_<<pc, page>>(Settles)

\* Run 1 is inside resolveNoteId, waiting for an answer.
Resolving == pc[1] \in {"lookup", "search1", "search2"}

\* resolveNoteId returned to run 1: the run has a response, or gave the
\* host the command for the note found.
Resolved == pc[1] \in {"command", "returned", "done"} /\ reqs[1] # <<>>

\* Each page of run 1 answered with has_more set (and, in the quoted pass,
\* without an exact match) was followed by a request for the next page.
NextPageRequested ==
    \A i \in DOMAIN pages[1] :
        LET a == pages[1][i]
        IN  (/\ a.has_more
             /\ ~a.failed
             /\ a.kind = "quoted" => ExactIn(a.items, title[1]) = <<>>)
            => \E k \in DOMAIN reqs[1] :
                  reqs[1][k].kind = a.kind /\ reqs[1][k].page = a.page + 1

\* C26: with a search facility that unsets has_more after finitely many
\* pages and external calls that all return or fail, every resolveNoteId
\* call completes, with an id or NotFound, and every followWikilink run
\* reaches its end; the resolver never stops paging of its own accord
\* while has_more is set.
C26_Terminates ==
    /\ [][Settles]_vars
    /\ <>(pc[1] = "done")
    /\ Resolving ~> Resolved
    /\ []NextPageRequested

\* A run that went through MaxPages pages of the quoted query and MaxPages
\* pages of the unquoted one, and ended.
C26_Witness ==
    /\ pc[1] = "done"
    /\ Len(PassPages(1, "quoted")) = MaxPages
    /\ Len(PassPages(1, "unquoted")) = MaxPages

====
